---------------------------- MODULE Spec2Model ----------------------------
(***************************************************************************)
(* A model of sidecar: the streaming parser of posts.xml (src/parser.rs),  *)
(* the tag counter (src/counter.rs) and the generate / analyze / report    *)
(* operations of src/lib.rs.                                               *)
(*                                                                         *)
(* Strings are sequences of one-character strings, so that prefixes,       *)
(* splits at '.', concatenation and the byte order of &str are computed.   *)
(* Option<T> is a set with no element (None) or one element (Some).        *)
(***************************************************************************)
EXTENDS Integers, Sequences, FiniteSets, TLC

VARIABLES
    \* ---- parser::parse_posts (src/parser.rs) and its caller ----
    tag_mappings,     \* the table lib.rs parse_posts loads for the parser
    posts,            \* let mut posts: Vec<Post>
    post,             \* let mut post: Post (the working record)
    last_opened_tag,  \* let mut last_opened_tag: XmlTag
    result,           \* what parse_posts has returned (kind "Running" before)
    open,             \* the reader: the elements now open (a post's with its
                      \* id attribute and the photo elements started in it)
    doc_phase,        \* the reader: "prolog", "body", "epilog", "eof"
    doc_ids,          \* the document: id of every post element closed so far
    missing_id_seen,  \* the document: a post start without id was delivered
    \* ---- Counter and the analyze path (src/counter.rs, src/lib.rs) ----
    map,              \* Counter.map: HashMap<&str, u32>
    calls,            \* how often increment has been called with each key
    tag_counts,       \* let mut tag_counts: Vec<TagCount<&str>>
    stdout,           \* the lines analyze has printed
    analyze_pc,       \* "counting", "collected", "done"
    \* ---- the generate path (src/lib.rs) ----
    gen_posts,        \* posts: the records parse_posts gives for the posts file
    dir,              \* the media directory: file name |-> kind and content
    file_cache,       \* let file_cache: Vec<fs::DirEntry>, by file name
    post_i,           \* write_sidecar_files: the post the outer loop is at
    entry_j,          \* write_sidecar_files: the match the inner loop is at
    report,           \* the lines report_missing_media has printed
    gen_pc,           \* "start", "parse", "write", "written", "reported", "done"
    gen_result,       \* what run has returned: "Running", "Ok" or the error
    run_no,           \* which run of generate this is
    first_dir,        \* the directory as the first run left it
    present_at_write, \* <<post, entry>>: the entry existed when reached
    written,          \* the paths this run has created or truncated
    deleted,          \* the media files removed by others since the scan
    \* ---- load_tag_mappings (src/lib.rs) ----
    mapping_file,     \* the tag-mapping file: its name and its lines
    mappings,         \* let mut mappings: HashMap<String, Option<String>>
    line_i,           \* the line file.lines() gives next
    load_result       \* what load_tag_mappings has returned

parserVars == <<tag_mappings, posts, post, last_opened_tag, result, open,
                doc_phase, doc_ids, missing_id_seen>>

counterVars == <<map, calls, tag_counts, stdout, analyze_pc>>

genVars == <<gen_posts, dir, file_cache, post_i, entry_j, report, gen_pc,
             gen_result, run_no, first_dir, present_at_write, written, deleted>>

loadVars == <<mapping_file, mappings, line_i, load_result>>

\* The variables of the other components, which each component leaves alone.
notParser == <<counterVars, genVars, loadVars>>
notCounter == <<parserVars, genVars, loadVars>>
notGen == <<parserVars, counterVars, loadVars>>
notLoad == <<parserVars, counterVars, genVars>>

vars == <<parserVars, counterVars, genVars, loadVars>>

(***************************************************************************)
(* Strings                                                                 *)
(***************************************************************************)
\* The byte of each character used (ASCII), the order &str compares by.
CharCode(c) ==
    CASE c = "\n" -> 10
      [] c = "." -> 46
      [] c = "/" -> 47
      [] c = "1" -> 49
      [] c = "2" -> 50
      [] c = "_" -> 95
      [] c = "a" -> 97
      [] c = "b" -> 98
      [] c = "c" -> 99
      [] c = "d" -> 100
      [] c = "h" -> 104
      [] c = "i" -> 105
      [] c = "j" -> 106
      [] c = "p" -> 112
      [] c = "t" -> 116
      [] c = "u" -> 117
      [] c = "v" -> 118
      [] c = "x" -> 120
      [] c = "y" -> 121
      [] c = "z" -> 122

\* str::starts_with
StartsWith(s, prefix) ==
    /\ Len(prefix) <= Len(s)
    /\ SubSeq(s, 1, Len(prefix)) = prefix

\* The positions of character c in s.
Positions(s, c) == {i \in 1..Len(s) : s[i] = c}

SetMax(S) == CHOOSE m \in S : \A x \in S : x <= m

SetMin(S) == CHOOSE m \in S : \A x \in S : m <= x

\* str::split(sep): the parts of s between the separators, at least one.
RECURSIVE Split(_, _)
Split(s, sep) ==
    IF Positions(s, sep) = {} THEN <<s>>
    ELSE LET i == SetMin(Positions(s, sep))
         IN  <<SubSeq(s, 1, i - 1)>> \o Split(SubSeq(s, i + 1, Len(s)), sep)

\* char::is_whitespace, for the characters used.
IsWhitespace(c) == c \in {" ", "\t", "\r", "\n"}

\* str::trim: leading and trailing whitespace removed.
RECURSIVE Trim(_)
Trim(s) ==
    IF s = <<>> THEN s
    ELSE IF IsWhitespace(Head(s)) THEN Trim(Tail(s))
    ELSE IF IsWhitespace(s[Len(s)]) THEN Trim(SubSeq(s, 1, Len(s) - 1))
    ELSE s

\* chars.rsplitn(2, '.'): the first item is the text after the last '.', the
\* second (an Option) the text before it; without a '.' the first item is the
\* whole text and there is no second.
RSplitN2(chars) ==
    IF Positions(chars, ".") = {}
    THEN [after |-> {chars}, before |-> {}]
    ELSE LET i == SetMax(Positions(chars, "."))
         IN  [after  |-> {SubSeq(chars, i + 1, Len(chars))},
              before |-> {SubSeq(chars, 1, i - 1)}]

(***************************************************************************)
(* The parser: src/parser.rs                                               *)
(***************************************************************************)
\* Bounds of the documents explored: post elements, and the tags and photos
\* held by the records at any one time.
MaxPosts == 2
MaxTags == 1
MaxPhotos == 1

\* The id attribute values of the documents explored: the posts are numbered
\* in document order, or carry an id attribute that is present and empty.
Digits == <<"1", "2", "3", "4">>
IdOf(n) == IF n <= Len(Digits) THEN <<Digits[n]>> ELSE <<"1", Digits[n - Len(Digits)]>>

\* The attributes of the n-th post start element, as far as the parser reads
\* them: Option of the value of `id`.
IdAttrs(n) == {{}, {IdOf(n)}, {<<>>}}

\* The text contents of the documents explored: tag words and photo URLs.
Texts == {<<"a">>, <<"c">>, <<"u", ".", "j">>, <<"h", ".", "c", "/", "i">>}

\* The table of the tag-mapping file explored, source |-> Option<dest>:
\* a is renamed to b, c is dropped, every other tag has no entry.
RenameDrop == [t \in {<<"a">>, <<"c">>} |->
                 IF t = <<"a">> THEN {<<"b">>} ELSE {}]
MappingTables == {RenameDrop}

\* impl Default for Post, with the fields parse_posts uses and the media
\* type lib.rs gives a record.
DefaultPost ==
    [id |-> <<>>, tags |-> <<>>, extension |-> {}, image_count |-> 0,
     media_type |-> "Text"]

Running == [kind |-> "Running", error |-> "", posts |-> <<>>]
Ok(ps) == [kind |-> "Ok", error |-> "", posts |-> ps]
Err(e) == [kind |-> "Err", error |-> e, posts |-> <<>>]

\* attributes.iter().find(|a| a.name.local_name == "id"): Some(value) or None.
FindId(attributes) == attributes

\* The condition under which the end of a post element pushes the record.
PostEndKeeps(p) == p.extension # {}

\* What a text inside `tag` appends to post.tags: post.tags.push(chars).
TagPush(chars, table) == <<chars>>

\* What a text inside `photo-url` makes of post.extension.
PhotoUrlExtension(extension, chars) ==
    IF extension = {}
    THEN LET iter == RSplitN2(chars)
         IN  IF iter.before # {} THEN iter.after ELSE extension
    ELSE extension

RECURSIVE SumOver(_, _)
SumOver(f, S) ==
    IF S = {} THEN 0
    ELSE LET x == CHOOSE y \in S : TRUE IN f[x] + SumOver(f, S \ {x})

\* The tags and the photos the records (sealed and working) hold.
HeldTags ==
    Len(post.tags) + SumOver([i \in 1..Len(posts) |-> Len(posts[i].tags)],
                             1..Len(posts))
HeldPhotos ==
    post.image_count + SumOver([i \in 1..Len(posts) |-> posts[i].image_count],
                               1..Len(posts))

\* The tags of the posts analyze counts.
TagKeys == {<<"x">>, <<"x", "y">>, <<"y">>, <<"z">>}

\* HashMap::new()
EmptyMap == [k \in {} |-> 0]

\* Counter::new() and an empty table, before analyze has counted anything.
CounterIdle ==
    /\ map = EmptyMap
    /\ calls = [k \in TagKeys |-> 0]
    /\ tag_counts = <<>>
    /\ stdout = <<>>
    /\ analyze_pc = "counting"

\* load_tag_mappings before its first step, with an empty file.
LoadIdle ==
    /\ mapping_file = [name |-> <<"m">>, lines |-> <<>>]
    /\ mappings = EmptyMap
    /\ line_i = 1
    /\ load_result = [kind |-> "Running", error |-> <<>>, mappings |-> {}]

\* generate before its first step, with no posts and an empty directory.
GenIdle ==
    /\ gen_posts = <<>>
    /\ dir = EmptyMap
    /\ file_cache = <<>>
    /\ post_i = 1
    /\ entry_j = 1
    /\ report = <<>>
    /\ gen_pc = "start"
    /\ gen_result = "Running"
    /\ run_no = 1
    /\ first_dir = EmptyMap
    /\ present_at_write = {}
    /\ written = {}
    /\ deleted = {}

\* ---- the reader (xml-rs EventReader), which delivers well-formed events ----
\* The documents are of the format of posts.xml: a root element holding post
\* elements; a post holds tag, photo-url, photo and other elements; a photo
\* holds photo-url elements; text may stand anywhere inside the root.
Top == open[Len(open)]

CanStart(parents) ==
    /\ result.kind = "Running"
    /\ doc_phase = "body"
    /\ Top.name \in parents

Started(name, id) ==
    /\ open' = Append(IF name = "photo"
                      THEN [open EXCEPT ![Len(open)].photos = @ + 1]
                      ELSE open,
                      [name |-> name, id |-> id, photos |-> 0])
    /\ doc_phase' = "body"
    /\ UNCHANGED <<tag_mappings, doc_ids>>

\* The parser before its first event.
ParserIdle ==
    /\ posts = <<>>
    /\ post = DefaultPost
    /\ last_opened_tag = "Other"
    /\ result = Running
    /\ open = <<>>
    /\ doc_phase = "prolog"
    /\ doc_ids = <<>>
    /\ missing_id_seen = FALSE

InitParser ==
    /\ tag_mappings \in MappingTables
    /\ ParserIdle
    /\ CounterIdle
    /\ LoadIdle
    /\ GenIdle

\* A return of parse_posts: the result, and the locals and the reader dropped
\* (posts keeps the records that had been sealed when the call returned).
Returned(r) ==
    /\ result' = r
    /\ post' = DefaultPost
    /\ last_opened_tag' = "Other"
    /\ open' = <<>>
    /\ doc_phase' = "eof"
    /\ UNCHANGED <<tag_mappings, posts, doc_ids>>

\* A slip of the post start handler: a missing id is taken as the empty id.
PostId_Lenient(attributes) ==
    [ok |-> TRUE,
     id |-> IF FindId(attributes) # {}
            THEN CHOOSE v \in FindId(attributes) : TRUE
            ELSE <<>>]

\* The id a post start element gives the working record, or the error of a
\* post without the attribute.
PostId(attributes) ==
    IF FindId(attributes) # {}
    THEN [ok |-> TRUE, id |-> CHOOSE v \in FindId(attributes) : TRUE]
    ELSE [ok |-> FALSE, id |-> <<>>]

\* Ok(XmlEvent::StartElement) with name "post".
StartElementPost(attributes) ==
    /\ CanStart({"root"})
    /\ Len(doc_ids) < MaxPosts
    /\ missing_id_seen' = (missing_id_seen \/ attributes = {})
    /\ IF PostId(attributes).ok
       THEN /\ Started("post", attributes)
            /\ last_opened_tag' = "Post"
            /\ post' = [post EXCEPT !.id = PostId(attributes).id]
            /\ UNCHANGED <<posts, result>>
       ELSE Returned(Err("MissingId"))
    /\ UNCHANGED notParser

StartElementTag ==
    /\ CanStart({"post"})
    /\ Started("tag", {})
    /\ last_opened_tag' = "Tag"
    /\ UNCHANGED <<posts, post, result, missing_id_seen>>
    /\ UNCHANGED notParser

StartElementPhotoUrl ==
    /\ CanStart({"post", "photo"})
    /\ Started("photo-url", {})
    /\ last_opened_tag' = "PhotoUrl"
    /\ UNCHANGED <<posts, post, result, missing_id_seen>>
    /\ UNCHANGED notParser

StartElementPhoto ==
    /\ CanStart({"post"})
    /\ HeldPhotos < MaxPhotos
    /\ Started("photo", {})
    /\ last_opened_tag' = "Photo"
    /\ post' = [post EXCEPT !.image_count = @ + 1]
    /\ UNCHANGED <<posts, result, missing_id_seen>>
    /\ UNCHANGED notParser

\* The root element and the elements of a post the parser does not know.
StartElementOther ==
    /\ \/ CanStart({"post"}) /\ Started("other", {})
       \/ /\ result.kind = "Running"
          /\ doc_phase = "prolog"
          /\ Started("root", {})
    /\ last_opened_tag' = "Other"
    /\ UNCHANGED <<posts, post, result, missing_id_seen>>
    /\ UNCHANGED notParser

\* Ok(XmlEvent::EndElement): the reader closes the innermost open element.
EndElement ==
    /\ result.kind = "Running"
    /\ doc_phase = "body"
    /\ open' = SubSeq(open, 1, Len(open) - 1)
    /\ doc_phase' = IF Len(open) = 1 THEN "epilog" ELSE "body"
    /\ IF Top.name = "post"
       THEN /\ doc_ids' = Append(doc_ids, Top.id)
            /\ posts' = IF PostEndKeeps(post) THEN Append(posts, post) ELSE posts
            /\ post' = DefaultPost
       ELSE UNCHANGED <<doc_ids, posts, post>>
    /\ UNCHANGED <<tag_mappings, last_opened_tag, result, missing_id_seen>>
    /\ UNCHANGED notParser

\* Ok(XmlEvent::Characters(chars)).
Characters(chars) ==
    /\ result.kind = "Running"
    /\ doc_phase = "body"
    /\ last_opened_tag = "Tag" => HeldTags < MaxTags
    /\ post' = CASE last_opened_tag = "Tag" ->
                      [post EXCEPT !.tags = @ \o TagPush(chars, tag_mappings)]
                 [] last_opened_tag = "PhotoUrl" ->
                      [post EXCEPT !.extension = PhotoUrlExtension(@, chars)]
                 [] OTHER -> post
    /\ UNCHANGED <<tag_mappings, posts, last_opened_tag, result, open, doc_phase,
                   doc_ids, missing_id_seen>>
    /\ UNCHANGED notParser

\* Err(e) => return Err(e): the reader reports a syntax error; File::open
\* failing at the start ends the call the same way.
StreamError ==
    /\ result.kind = "Running"
    /\ doc_phase # "eof"
    /\ Returned(Err("Malformed"))
    /\ UNCHANGED missing_id_seen
    /\ UNCHANGED notParser

\* _ => {}: an event the parser ignores, here the EndDocument the reader
\* delivers once the root element has closed.
IgnoredEvent ==
    /\ result.kind = "Running"
    /\ doc_phase = "epilog"
    /\ doc_phase' = "eof"
    /\ UNCHANGED <<tag_mappings, posts, post, last_opened_tag, result, open,
                   doc_ids, missing_id_seen>>
    /\ UNCHANGED notParser

\* The event iterator is exhausted: Ok(posts).
ReturnOk ==
    /\ result.kind = "Running"
    /\ doc_phase = "eof"
    /\ Returned(Ok(posts))
    /\ UNCHANGED missing_id_seen
    /\ UNCHANGED notParser

NextParser ==
    \/ \E attributes \in IdAttrs(Len(doc_ids) + 1) : StartElementPost(attributes)
    \/ StartElementTag
    \/ StartElementPhotoUrl
    \/ StartElementPhoto
    \/ StartElementOther
    \/ EndElement
    \/ \E chars \in Texts : Characters(chars)
    \/ StreamError
    \/ IgnoredEvent
    \/ ReturnOk

SpecParser == InitParser /\ [][NextParser]_vars

(***************************************************************************)
(* Claims about the parser                                                 *)
(***************************************************************************)
\* The ids of a sequence of records, each as an Option like the attribute.
RecordIds(ps) == [i \in 1..Len(ps) |-> {ps[i].id}]

\* C1: when parsing a well-formed document succeeds, the records returned
\* are one per post element of the document, in document order (a post with
\* no photo-url, so no extension, included).
C1_OneRecordPerPost ==
    result.kind = "Ok" => RecordIds(result.posts) = doc_ids

\* C2: once the reader has delivered a post start element without an id
\* attribute, wherever it stands in the document, parse_posts has returned
\* the missing-attribute error and no record at all.
C2_MissingIdFails ==
    missing_id_seen =>
        /\ result.kind = "Err"
        /\ result.error = "MissingId"
        /\ result.posts = <<>>

\* C2's case: the post without id came after a post that had been sealed.
C2_Witness ==
    /\ missing_id_seen
    /\ result.error = "MissingId"
    /\ Len(posts) > 0

\* What the tag-mapping table makes of a tag text: the mapped value, nothing
\* for a mapping with no value, the raw text without an entry.
Remapped(table, chars) ==
    IF chars \in DOMAIN table
    THEN IF table[chars] = {} THEN <<>>
         ELSE <<CHOOSE v \in table[chars] : TRUE>>
    ELSE <<chars>>

\* C3: every text handled as a tag is looked up in the tag-mapping table and
\* what is appended to the record's tags is the renamed value, nothing for a
\* dropped tag, and the raw text when the table has no entry for it.
C3_TagsRemapped ==
    [][\A chars \in Texts :
         (last_opened_tag = "Tag" /\ Characters(chars)) =>
             post'.tags = post.tags \o Remapped(tag_mappings, chars)]_vars

\* The last path segment of a URL: the text after its last '/'.
LastSegment(chars) ==
    IF Positions(chars, "/") = {} THEN chars
    ELSE SubSeq(chars, SetMax(Positions(chars, "/")) + 1, Len(chars))

\* The extension the URL's last path segment shows: the text after its final
\* '.', or None when the segment has no '.'.
SegmentSuffix(chars) ==
    LET seg == LastSegment(chars)
    IN  IF Positions(seg, ".") = {} THEN {}
        ELSE {SubSeq(seg, SetMax(Positions(seg, ".")) + 1, Len(seg))}

\* C8: a photo-url text sets the extension, when none is set yet, to the text
\* after the final '.' of the URL's last path segment, leaves it unset when
\* that segment has no such suffix, and never overwrites an extension.
C8_ExtensionOfLastSegment ==
    [][\A chars \in Texts :
         (last_opened_tag = "PhotoUrl" /\ Characters(chars)) =>
             post'.extension = IF post.extension # {} THEN post.extension
                               ELSE SegmentSuffix(chars)]_vars

\* C16: the working record is empty when a post element starts; a text
\* inside a tag element extends the record's tags; and a text that stands
\* outside a tag element (after a tag has closed, inside an unrecognized
\* element, between posts) leaves the tags of the record alone, so that it
\* never reaches this or the next post's record.
C16_RecordHoldsOwnPost ==
    [][/\ \A attributes \in IdAttrs(Len(doc_ids) + 1) :
              (StartElementPost(attributes) /\ attributes # {})
                  => post = DefaultPost
       /\ \A chars \in Texts :
              Characters(chars) =>
                  IF Top.name = "tag"
                  THEN SubSeq(post'.tags, 1, Len(post.tags)) = post.tags
                  ELSE post'.tags = post.tags]_vars

\* C17: the record a post end seals has as image_count the number of photo
\* elements started inside the post, and has the media type Photo if and
\* only if there was at least one.
C17_PhotoCountAndType ==
    [][(EndElement /\ Top.name = "post" /\ Len(posts') > Len(posts)) =>
          LET sealed == posts'[Len(posts')]
          IN  /\ sealed.image_count = Top.photos
              /\ sealed.media_type = "Photo" <=> Top.photos > 0]_vars

\* C18: every record parse_posts returns has a non-empty id, also for a
\* document with a post whose id attribute is present and empty.
C18_IdsNonEmpty ==
    result.kind = "Ok" =>
        \A i \in DOMAIN result.posts : result.posts[i].id # <<>>

(***************************************************************************)
(* The tag counter and the analyze path: src/counter.rs, src/lib.rs        *)
(***************************************************************************)
\* The number of tags the posts of an analyze run hold.
MaxIncrements == 5

\* u32::cmp
CmpU32(a, b) == IF a < b THEN "Less" ELSE IF a > b THEN "Greater" ELSE "Equal"

\* str::cmp: the byte-wise lexicographic order.
RECURSIVE StrCmp(_, _)
StrCmp(s, t) ==
    IF s = <<>> /\ t = <<>> THEN "Equal"
    ELSE IF s = <<>> THEN "Less"
    ELSE IF t = <<>> THEN "Greater"
    ELSE IF CharCode(Head(s)) < CharCode(Head(t)) THEN "Less"
    ELSE IF CharCode(Head(s)) > CharCode(Head(t)) THEN "Greater"
    ELSE StrCmp(Tail(s), Tail(t))

\* TagCount::new
TagCount(tag, count) == [tag |-> tag, count |-> count]

\* A slip of Ord for TagCount: the counts compared in ascending order.
TagCountCmp_Ascending(self, other) ==
    CASE CmpU32(self.count, other.count) = "Greater" -> "Greater"
      [] CmpU32(self.count, other.count) = "Less" -> "Less"
      [] OTHER -> StrCmp(self.tag, other.tag)

\* impl Ord for TagCount: cmp
TagCountCmp(self, other) ==
    CASE CmpU32(other.count, self.count) = "Greater" -> "Greater"
      [] CmpU32(other.count, self.count) = "Less" -> "Less"
      [] OTHER -> StrCmp(self.tag, other.tag)

\* A slip of Counter::increment: a new key entered with count 0.
Incremented_FromZero(m, key) ==
    IF key \in DOMAIN m
    THEN [m EXCEPT ![key] = @ + 1]
    ELSE [k \in DOMAIN m \cup {key} |-> IF k = key THEN 0 ELSE m[k]]

\* Counter::increment: self.map.entry(key).and_modify(|e| *e += 1).or_insert(1)
Incremented(m, key) ==
    IF key \in DOMAIN m
    THEN [m EXCEPT ![key] = @ + 1]
    ELSE [k \in DOMAIN m \cup {key} |-> IF k = key THEN 1 ELSE m[k]]

\* Counter::get: Option<&u32>
Get(m, key) == IF key \in DOMAIN m THEN {m[key]} ELSE {}

\* The orders in which a HashMap of these keys can be iterated.
Orders(S) ==
    {o \in [1..Cardinality(S) -> S] : \A i, j \in DOMAIN o : i # j => o[i] # o[j]}

\* slice::sort, a stable sort by cmp: each entry is put behind the entries
\* that do not compare greater than it.
RECURSIVE Inserted(_, _)
Inserted(sorted, x) ==
    IF sorted = <<>> THEN <<x>>
    ELSE IF TagCountCmp(Head(sorted), x) = "Greater" THEN <<x>> \o sorted
    ELSE <<Head(sorted)>> \o Inserted(Tail(sorted), x)

RECURSIVE Sorted(_)
Sorted(v) ==
    IF v = <<>> THEN <<>>
    ELSE Inserted(Sorted(SubSeq(v, 1, Len(v) - 1)), v[Len(v)])

\* The decimal digits of a u32, as Display writes it.
RECURSIVE Decimal(_)
Decimal(n) ==
    LET digit == <<"0", "1", "2", "3", "4", "5", "6", "7", "8", "9">>[(n % 10) + 1]
    IN  IF n < 10 THEN <<digit>> ELSE Decimal(n \div 10) \o <<digit>>

\* impl Display for TagCount: write!(f, "{}: {}", self.tag, self.count)
Display(t) == t.tag \o <<":", " ">> \o Decimal(t.count)

InitCounter ==
    /\ tag_mappings = RenameDrop
    /\ ParserIdle
    /\ CounterIdle
    /\ LoadIdle
    /\ GenIdle

\* count_tags: counter.increment(tag) for the next tag of the posts.
Increment(key) ==
    /\ analyze_pc = "counting"
    /\ SumOver(calls, TagKeys) < MaxIncrements
    /\ map' = Incremented(map, key)
    /\ calls' = [calls EXCEPT ![key] = @ + 1]
    /\ UNCHANGED <<tag_counts, stdout, analyze_pc>>
    /\ UNCHANGED notCounter

\* count_tags: counter.into(), the entries in the order the map iterates.
IntoVec(order) ==
    /\ analyze_pc = "counting"
    /\ tag_counts' = [i \in DOMAIN order |-> TagCount(order[i], map[order[i]])]
    /\ analyze_pc' = "collected"
    /\ UNCHANGED <<map, calls, stdout>>
    /\ UNCHANGED notCounter

\* run, Config::Analyze: tag_counts.sort() and a line printed per entry.
SortAndPrint ==
    /\ analyze_pc = "collected"
    /\ tag_counts' = Sorted(tag_counts)
    /\ stdout' = [i \in DOMAIN tag_counts |-> Display(Sorted(tag_counts)[i])]
    /\ analyze_pc' = "done"
    /\ UNCHANGED <<map, calls>>
    /\ UNCHANGED notCounter

NextCounter ==
    \/ \E key \in TagKeys : Increment(key)
    \/ \E order \in Orders(DOMAIN map) : IntoVec(order)
    \/ SortAndPrint

SpecCounter == InitCounter /\ [][NextCounter]_vars

(***************************************************************************)
(* Claims about the counter                                                *)
(***************************************************************************)
\* s comes before t in the lexicographic order of the bytes.
LexLess(s, t) ==
    \E k \in 1..(Len(t)) :
        /\ \A i \in 1..(k - 1) : i <= Len(s) /\ s[i] = t[i]
        /\ \/ k = Len(s) + 1
           \/ k <= Len(s) /\ CharCode(s[k]) < CharCode(t[k])

\* a comes before b in the order the specification gives TagCount.
Before(a, b) ==
    \/ a.count > b.count
    \/ a.count = b.count /\ LexLess(a.tag, b.tag)

Entries == {tag_counts[i] : i \in DOMAIN tag_counts}

\* C6: the comparison of TagCount is a strict total order that puts the larger
\* count first and, among equal counts, the lexicographically smaller tag
\* first; the sorted table is therefore the one sequence in that order,
\* whatever order the map was iterated in: x, x, y, y, z gives
\* (x,2), (y,2), (z,1).
C6_SortOrder ==
    /\ \A a, b \in Entries :
           /\ TagCountCmp(a, b) = "Less" <=> Before(a, b)
           /\ TagCountCmp(a, b) = "Equal" <=> a = b
           /\ TagCountCmp(a, b) = "Greater" <=> Before(b, a)
    /\ analyze_pc = "done" =>
           /\ \A i, j \in DOMAIN tag_counts :
                  i < j => Before(tag_counts[i], tag_counts[j])
           /\ Entries = {TagCount(k, calls[k]) : k \in {k \in TagKeys : calls[k] > 0}}
           /\ (/\ calls[<<"x">>] = 2 /\ calls[<<"y">>] = 2 /\ calls[<<"z">>] = 1
               /\ calls[<<"x", "y">>] = 0)
              => tag_counts = <<TagCount(<<"x">>, 2), TagCount(<<"y">>, 2),
                                TagCount(<<"z">>, 1)>>

\* C6's case: the table of x, x, y, y, z has been sorted.
C6_Witness ==
    /\ analyze_pc = "done"
    /\ calls[<<"x">>] = 2 /\ calls[<<"y">>] = 2 /\ calls[<<"z">>] = 1
    /\ Len(tag_counts) = 3

\* C7: get(k) is the number of increment(k) calls made, None for a key never
\* incremented (so an increment of one key changes no other key's count), and
\* the table built from the counter has exactly one entry per distinct key,
\* with that count.
C7_ExactCounts ==
    /\ \A k \in TagKeys :
           Get(map, k) = IF calls[k] = 0 THEN {} ELSE {calls[k]}
    /\ analyze_pc = "collected" =>
           /\ Len(tag_counts) = Cardinality({k \in TagKeys : calls[k] > 0})
           /\ \A k \in TagKeys :
                  calls[k] > 0 =>
                      Cardinality({i \in DOMAIN tag_counts :
                                      tag_counts[i] = TagCount(k, calls[k])}) = 1

\* C7's case: one key incremented twice, another once, a third never, and the
\* table built.
C7_Witness ==
    /\ analyze_pc = "collected"
    /\ \E k1, k2, k3 \in TagKeys :
           calls[k1] >= 2 /\ calls[k2] = 1 /\ calls[k3] = 0

(***************************************************************************)
(* The generate path: src/lib.rs                                           *)
(***************************************************************************)
\* Bounds of the runs explored: the posts of a run, the runs of generate over
\* one directory, and the media files others remove during a run.
MaxGenPosts == 2
MaxRuns == 2
MaxDeletes == 1

\* struct Post of lib.rs
Post(id, url, media_type, tags) ==
    [id |-> id, url |-> url, media_type |-> media_type, tags |-> tags]

\* The posts explored: the id of one is a prefix of the id of another, one
\* has no tag and an id that ends in '.', and one has the empty id of an id
\* attribute that is empty.
PostPool ==
    {Post(<<"1">>, <<"u", "1">>, "Photo", <<<<"a">>, <<"c">>>>),
     Post(<<"1", "2">>, <<"u", "1", "2">>, "Text", <<<<"c">>>>),
     Post(<<"1", ".">>, <<"u", "2">>, "Photo", <<>>),
     Post(<<>>, <<"u">>, "Other", <<<<"a">>>>)}

\* The sequences of distinct posts of the pool, up to MaxGenPosts long.
PostLists ==
    UNION {{ps \in [1..n -> PostPool] : \A i, j \in 1..n : i # j => ps[i] # ps[j]}
           : n \in 0..MaxGenPosts}

\* What the media directory holds at the start: a sidecar of an earlier run
\* with other content and a subdirectory, and any of two media files and a
\* file named .txt (to which Path::extension gives no extension).
File(content) == [kind |-> "file", content |-> content]
Subdirectory == [kind |-> "dir", content |-> <<>>]
TxtSuffix == <<".", "t", "x", "t">>
InitialEntries ==
    [n \in {<<"1", ".", "j">>, <<"1", "2", ".", "j">>,
            <<"1", ".", "j">> \o TxtSuffix, TxtSuffix, <<"1", "d">>} |->
        IF n = <<"1", "d">> THEN Subdirectory
        ELSE IF n = <<"1", ".", "j">> \o TxtSuffix THEN File(<<"d", "\n">>)
        ELSE File(<<"m">>)]
AlwaysThere == {<<"1", ".", "j">> \o TxtSuffix, <<"1", "d">>}
Directories ==
    {[n \in S \cup AlwaysThere |-> InitialEntries[n]] :
        S \in SUBSET (DOMAIN InitialEntries \ AlwaysThere)}

\* Path::file_stem and Path::extension of a file name: the name is split at
\* its last '.', unless it has none or only a leading one.
FileStem(name) ==
    LET iter == RSplitN2(name)
    IN  IF iter.before = {} \/ iter.before = {<<>>} THEN name
        ELSE CHOOSE b \in iter.before : TRUE

Extension(name) ==
    LET iter == RSplitN2(name)
    IN  IF iter.before = {} \/ iter.before = {<<>>} THEN {}
        ELSE iter.after

\* A slip of the inventory filter: sidecar files are kept.
CacheFilter_KeepsTxt(d, name) == d[name].kind = "file"

\* build_file_cache: the filter of the directory's entries.
CacheFilter(d, name) ==
    /\ d[name].kind = "file"
    /\ (Extension(name) = {} \/ Extension(name) # {<<"t", "x", "t">>})

\* The tag payload of a post: writeln!(&mut tags, "{}", tag) for each tag.
RECURSIVE Payload(_)
Payload(tags) ==
    IF tags = <<>> THEN <<>>
    ELSE Head(tags) \o <<"\n">> \o Payload(Tail(tags))

\* The entries of the cache whose file stem starts with the post's id, in the
\* order of the cache: the filter(...).collect() of write_sidecar_files.
RECURSIVE Matches(_, _)
Matches(cache, id) ==
    IF cache = <<>> THEN <<>>
    ELSE (IF StartsWith(FileStem(Head(cache)), id) THEN <<Head(cache)>> ELSE <<>>)
         \o Matches(Tail(cache), id)

\* A slip of the target path: the suffix left out, the media file itself.
SidecarPath_InPlace(name) == name

\* path.to_string_lossy() + ".txt"
SidecarPath(name) == name \o TxtSuffix

\* A slip of the existence check: the entry of the cache is trusted.
Exists_Always(d, name) == TRUE

\* entry.path().exists(), asked of the directory as it is now.
Exists(d, name) == name \in DOMAIN d

\* The errors run returns.
ErrMediaDir == "ErrMediaDir"
ErrParse == "ErrParse"
ErrIo == "ErrIo"

\* A slip of the error handling: the error is dropped and the work goes on.
Question_Ignored(r) == "continue"

\* The ? operator on a Result: Ok goes on, Err returns from the function.
Question(r) == IF r = "Ok" THEN "continue" ELSE "return"

\* The proper prefixes of a payload: what a failing write_all may have
\* written to the file it had created.
PartialWrites(payload) == {SubSeq(payload, 1, k) : k \in 0..(Len(payload) - 1)}

\* A slip of the sidecar write: the file opened for appending.
SidecarWritten_Appended(d, path, payload) ==
    [n \in DOMAIN d \cup {path} |->
        IF n = path
        THEN File((IF path \in DOMAIN d THEN d[path].content ELSE <<>>) \o payload)
        ELSE d[n]]

\* File::create(file_path) and tags_file.write_all(&tags): the file is
\* created, or truncated, and holds the payload.
SidecarWritten(d, path, payload) ==
    [n \in DOMAIN d \cup {path} |-> IF n = path THEN File(payload) ELSE d[n]]

\* A slip of the reporter's search: the file's name has to be the id.
Found_ExactName(files, id) == \E k \in DOMAIN files : files[k] = id

\* report_missing_media: the search of the inventory for one post.
RECURSIVE Found(_, _)
Found(files, id) ==
    IF files = <<>> THEN FALSE
    ELSE IF StartsWith(Head(files), id) THEN TRUE
    ELSE Found(Tail(files), id)

\* A slip of the reporter: the media type is not looked at.
ShouldReport_AnyType(found, media_type) == found = FALSE

\* report_missing_media: whether a line is printed for a post.
ShouldReport(found, media_type) == found = FALSE /\ media_type = "Photo"

\* The line printed for a post, by the two values it names.
ReportLine(p) == [id |-> p.id, url |-> p.url]

\* report_missing_media: the lines printed for the posts, in order.
RECURSIVE ReportLines(_, _)
ReportLines(ps, files) ==
    IF ps = <<>> THEN <<>>
    ELSE (IF ShouldReport(Found(files, Head(ps).id), Head(ps).media_type)
          THEN <<ReportLine(Head(ps))>> ELSE <<>>)
         \o ReportLines(Tail(ps), files)

CurrentMatches == Matches(file_cache, gen_posts[post_i].id)

InitGenerate ==
    /\ tag_mappings = RenameDrop
    /\ ParserIdle
    /\ CounterIdle
    /\ LoadIdle
    /\ gen_posts \in PostLists
    /\ dir \in Directories
    /\ file_cache = <<>>
    /\ post_i = 1
    /\ entry_j = 1
    /\ report = <<>>
    /\ gen_pc = "start"
    /\ gen_result = "Running"
    /\ run_no = 1
    /\ first_dir = EmptyMap
    /\ present_at_write = {}
    /\ written = {}
    /\ deleted = {}

\* run returns: the result and, of the first run, the directory it leaves.
RunReturns(r) ==
    /\ gen_pc' = "done"
    /\ gen_result' = r
    /\ first_dir' = IF run_no = 1 THEN dir' ELSE first_dir

\* run, Config::Generate: build_file_cache lists the directory, in the order
\* read_dir gives.
BuildFileCache(order) ==
    /\ gen_pc = "start"
    /\ file_cache' = order
    /\ gen_pc' = "parse"
    /\ UNCHANGED <<gen_posts, dir, post_i, entry_j, report, gen_result, run_no,
                   first_dir, present_at_write, written, deleted>>
    /\ UNCHANGED notGen

\* build_file_cache: read_dir fails, "unable to open media directory".
BuildFileCacheFails ==
    /\ gen_pc = "start"
    /\ UNCHANGED <<gen_posts, dir, file_cache, post_i, entry_j, report, run_no,
                   present_at_write, written, deleted>>
    /\ IF Question(ErrMediaDir) = "return"
       THEN RunReturns(ErrMediaDir)
       ELSE gen_pc' = "parse" /\ UNCHANGED <<gen_result, first_dir>>
    /\ UNCHANGED notGen

\* run: parse_posts(common_opts) gives the records of the posts file.
ParsePosts ==
    /\ gen_pc = "parse"
    /\ gen_pc' = "write"
    /\ UNCHANGED <<gen_posts, dir, file_cache, post_i, entry_j, report, gen_result,
                   run_no, first_dir, present_at_write, written, deleted>>
    /\ UNCHANGED notGen

\* run: parse_posts(common_opts) fails, in load_tag_mappings or in the parser.
ParsePostsFails ==
    /\ gen_pc = "parse"
    /\ UNCHANGED <<gen_posts, dir, file_cache, post_i, entry_j, report, run_no,
                   present_at_write, written, deleted>>
    /\ IF Question(ErrParse) = "return"
       THEN RunReturns(ErrParse)
       ELSE gen_pc' = "write" /\ UNCHANGED <<gen_result, first_dir>>
    /\ UNCHANGED notGen

\* write_sidecar_files has a post and an entry of its matches to work on.
AtEntry ==
    /\ gen_pc = "write"
    /\ post_i <= Len(gen_posts)
    /\ entry_j <= Len(CurrentMatches)

\* write_sidecar_files, one turn of the inner loop: the sidecar of the next
\* matching entry is written if the entry still exists.
WriteSidecar ==
    /\ AtEntry
    /\ LET name == CurrentMatches[entry_j]
       IN  IF Exists(dir, name)
           THEN /\ dir' = SidecarWritten(dir, SidecarPath(name),
                                         Payload(gen_posts[post_i].tags))
                /\ written' = written \cup {SidecarPath(name)}
                /\ present_at_write' = present_at_write \cup {<<post_i, name>>}
           ELSE UNCHANGED <<dir, written, present_at_write>>
    /\ entry_j' = entry_j + 1
    /\ UNCHANGED <<gen_posts, file_cache, post_i, report, gen_pc, gen_result,
                   run_no, first_dir, deleted>>
    /\ UNCHANGED notGen

\* write_sidecar_files: File::create fails and the error is returned.
CreateFails ==
    /\ AtEntry
    /\ Exists(dir, CurrentMatches[entry_j])
    /\ UNCHANGED <<gen_posts, dir, file_cache, post_i, report, run_no,
                   present_at_write, written, deleted>>
    /\ IF Question(ErrIo) = "return"
       THEN RunReturns(ErrIo) /\ UNCHANGED entry_j
       ELSE entry_j' = entry_j + 1 /\ UNCHANGED <<gen_pc, gen_result, first_dir>>
    /\ UNCHANGED notGen

\* write_sidecar_files: the file is created (or truncated), write_all fails
\* after writing a part of the payload, and the error is returned.
WriteAllFails(partial) ==
    /\ AtEntry
    /\ Exists(dir, CurrentMatches[entry_j])
    /\ partial \in PartialWrites(Payload(gen_posts[post_i].tags))
    /\ dir' = SidecarWritten(dir, SidecarPath(CurrentMatches[entry_j]), partial)
    /\ written' = written \cup {SidecarPath(CurrentMatches[entry_j])}
    /\ UNCHANGED <<gen_posts, file_cache, post_i, report, run_no,
                   present_at_write, deleted>>
    /\ IF Question(ErrIo) = "return"
       THEN RunReturns(ErrIo) /\ UNCHANGED entry_j
       ELSE entry_j' = entry_j + 1 /\ UNCHANGED <<gen_pc, gen_result, first_dir>>
    /\ UNCHANGED notGen

\* write_sidecar_files: the outer loop goes to the next post.
NextPost ==
    /\ gen_pc = "write"
    /\ post_i <= Len(gen_posts)
    /\ entry_j > Len(CurrentMatches)
    /\ post_i' = post_i + 1
    /\ entry_j' = 1
    /\ UNCHANGED <<gen_posts, dir, file_cache, report, gen_pc, gen_result, run_no,
                   first_dir, present_at_write, written, deleted>>
    /\ UNCHANGED notGen

\* write_sidecar_files returns Ok(()).
WriteDone ==
    /\ gen_pc = "write"
    /\ post_i > Len(gen_posts)
    /\ gen_pc' = "written"
    /\ UNCHANGED <<gen_posts, dir, file_cache, post_i, entry_j, report, gen_result,
                   run_no, first_dir, present_at_write, written, deleted>>
    /\ UNCHANGED notGen

\* run: report_missing is set, report_missing_media prints its lines.
ReportMissingMedia ==
    /\ gen_pc = "written"
    /\ report' = ReportLines(gen_posts, file_cache)
    /\ gen_pc' = "reported"
    /\ UNCHANGED <<gen_posts, dir, file_cache, post_i, entry_j, gen_result, run_no,
                   first_dir, present_at_write, written, deleted>>
    /\ UNCHANGED notGen

\* run returns Ok(()), after the report or, report_missing not set, without.
RunReturnsOk ==
    /\ gen_pc \in {"written", "reported"}
    /\ UNCHANGED <<gen_posts, dir, file_cache, post_i, entry_j, report, run_no,
                   present_at_write, written, deleted>>
    /\ RunReturns("Ok")
    /\ UNCHANGED notGen

\* Someone removes a media file of the inventory while the sidecars are
\* written: the cache gets out of sync.
ExternalDelete(name) ==
    /\ gen_pc = "write"
    /\ Cardinality(deleted) < MaxDeletes
    /\ name \in DOMAIN dir
    /\ \E i \in DOMAIN file_cache : file_cache[i] = name
    /\ dir' = [n \in DOMAIN dir \ {name} |-> dir[n]]
    /\ deleted' = deleted \cup {name}
    /\ UNCHANGED <<gen_posts, file_cache, post_i, entry_j, report, gen_pc,
                   gen_result, run_no, first_dir, present_at_write, written>>
    /\ UNCHANGED notGen

\* generate is run again on the same posts and the same directory.
RunAgain ==
    /\ gen_pc = "done"
    /\ gen_result = "Ok"
    /\ run_no < MaxRuns
    /\ run_no' = run_no + 1
    /\ gen_pc' = "start"
    /\ gen_result' = "Running"
    /\ file_cache' = <<>>
    /\ post_i' = 1
    /\ entry_j' = 1
    /\ report' = <<>>
    /\ present_at_write' = {}
    /\ written' = {}
    /\ UNCHANGED <<gen_posts, dir, first_dir, deleted>>
    /\ UNCHANGED notGen

NextGenerate ==
    \/ \E order \in Orders({n \in DOMAIN dir : CacheFilter(dir, n)}) :
           BuildFileCache(order)
    \/ BuildFileCacheFails
    \/ ParsePosts
    \/ ParsePostsFails
    \/ WriteSidecar
    \/ CreateFails
    \/ \E partial \in UNION {PartialWrites(Payload(p.tags)) : p \in PostPool} :
           WriteAllFails(partial)
    \/ NextPost
    \/ WriteDone
    \/ ReportMissingMedia
    \/ RunReturnsOk
    \/ \E name \in DOMAIN dir : ExternalDelete(name)
    \/ RunAgain

SpecGenerate == InitGenerate /\ [][NextGenerate]_vars

(***************************************************************************)
(* Claims about the generate path                                          *)
(***************************************************************************)
CacheNames == {file_cache[k] : k \in DOMAIN file_cache}

EndsWith(s, suffix) ==
    /\ Len(suffix) <= Len(s)
    /\ SubSeq(s, Len(s) - Len(suffix) + 1, Len(s)) = suffix

\* C4: when write_sidecar_files has returned Ok, every inventory entry whose
\* file stem starts with a post's id and which existed when the post's loop
\* reached it has a sidecar <entry>.txt holding that post's tags, one per
\* line, and no sidecar has been written for an entry that no post matches.
C4_SidecarsHoldPostTags ==
    gen_pc = "written" =>
        /\ \A i \in DOMAIN gen_posts : \A name \in CacheNames :
               (/\ StartsWith(FileStem(name), gen_posts[i].id)
                /\ <<i, name>> \in present_at_write)
               => /\ SidecarPath(name) \in DOMAIN dir
                  /\ dir[SidecarPath(name)].content = Payload(gen_posts[i].tags)
        /\ written \subseteq
               {SidecarPath(name) :
                   name \in {n \in CacheNames :
                               \E i \in DOMAIN gen_posts :
                                   StartsWith(FileStem(n), gen_posts[i].id)}}

\* The posts the report should name: Photo posts whose id is a prefix of no
\* inventory entry's file name.
MissingPosts ==
    {i \in DOMAIN gen_posts :
        /\ gen_posts[i].media_type = "Photo"
        /\ \A name \in CacheNames : ~StartsWith(name, gen_posts[i].id)}

LinesFor(i) == {k \in DOMAIN report : report[k].id = gen_posts[i].id}

\* C5: the report holds exactly one line for every Photo post whose id is a
\* prefix of no inventory entry's file name, and no line for any other post;
\* a Text post is never named, whatever the inventory holds.
C5_ReportExact ==
    gen_pc = "reported" =>
        /\ \A i \in DOMAIN gen_posts :
               Cardinality(LinesFor(i)) = IF i \in MissingPosts THEN 1 ELSE 0
        /\ \A i \in MissingPosts :
               \A k \in LinesFor(i) : report[k] = ReportLine(gen_posts[i])
        /\ Len(report) = Cardinality(MissingPosts)

\* C5's case: a Photo post without media and a Text post without media have
\* been reported on, with an inventory that is not empty.
C5_Witness ==
    /\ gen_pc = "reported"
    /\ file_cache # <<>>
    /\ MissingPosts # {}
    /\ \E i \in DOMAIN gen_posts :
           /\ gen_posts[i].media_type = "Text"
           /\ \A name \in CacheNames : ~StartsWith(name, gen_posts[i].id)

\* C9: a later run of generate over the same posts and the same directory,
\* nothing removed in between, leaves the directory exactly as the first run
\* left it: the same files with the same contents.
C9_SecondRunChangesNothing ==
    (run_no >= 2 /\ gen_pc = "done" /\ gen_result = "Ok" /\ deleted = {})
        => dir = first_dir

\* C9's case: the second run has overwritten sidecars of the first.
C9_Witness ==
    /\ run_no = 2
    /\ gen_pc = "done"
    /\ gen_result = "Ok"
    /\ deleted = {}
    /\ Cardinality(written) >= 2
    /\ \E i \in DOMAIN gen_posts : Len(gen_posts[i].tags) >= 2

\* C10: no entry of the inventory has the extension txt, so no entry is the
\* sidecar of a file, and no sidecar of a sidecar is ever written.
C10_NoSidecarInInventory ==
    /\ \A name \in CacheNames :
           /\ Extension(name) # {<<"t", "x", "t">>}
           /\ ~(Len(name) > Len(TxtSuffix) /\ EndsWith(name, TxtSuffix))
    /\ \A path \in written :
           ~(Len(path) > 2 * Len(TxtSuffix) /\ EndsWith(path, TxtSuffix \o TxtSuffix))

\* C10's case: the directory scanned held a sidecar, of an earlier run, and
\* sidecars have been written in this run.
C10_Witness ==
    /\ gen_pc = "done"
    /\ run_no = 2
    /\ written # {}
    /\ \E name \in DOMAIN dir : EndsWith(name, TxtSuffix)

\* The sidecar paths written for the i-th post in this run.
PathsWrittenFor(i) ==
    {SidecarPath(e[2]) : e \in {x \in present_at_write : x[1] = i}}

\* C11: two posts with different ids (non-empty, as the data model has them)
\* never write the same target path: the sets of sidecar paths written for
\* them are disjoint, whatever the inventory holds.
C11_TargetsDisjoint ==
    \A i, j \in DOMAIN gen_posts :
        (/\ gen_posts[i].id # gen_posts[j].id
         /\ gen_posts[i].id # <<>>
         /\ gen_posts[j].id # <<>>)
        => PathsWrittenFor(i) \cap PathsWrittenFor(j) = {}

\* The loop of write_sidecar_files stands at an entry of the inventory whose
\* file is no longer in the directory.
AtDeletedEntry == AtEntry /\ CurrentMatches[entry_j] \notin DOMAIN dir

\* C12: the inventory is not scanned again while the sidecars are written;
\* at an entry whose file has been deleted since the scan no error is
\* returned and the loop goes to the next entry without writing anything;
\* and when write_sidecar_files returns, every matching entry still in the
\* directory has been written for.
C12_DeletedEntrySkipped ==
    [][/\ gen_pc = "write" => file_cache' = file_cache
       /\ AtDeletedEntry =>
              /\ gen_result' = "Running"
              /\ entry_j' # entry_j =>
                     /\ entry_j' = entry_j + 1
                     /\ post_i' = post_i
                     /\ gen_pc' = "write"
                     /\ dir' = dir
                     /\ written' = written
       /\ (gen_pc = "write" /\ gen_pc' = "written") =>
              \A i \in DOMAIN gen_posts : \A k \in DOMAIN file_cache :
                  (/\ StartsWith(FileStem(file_cache[k]), gen_posts[i].id)
                   /\ file_cache[k] \in DOMAIN dir)
                  => <<i, file_cache[k]>> \in present_at_write]_vars

\* C12's case: write_sidecar_files has returned Ok after its loop came to an
\* entry that had been deleted, and a later post's sidecar was written.
C12_Witness ==
    /\ gen_pc = "written"
    /\ \E i \in DOMAIN gen_posts : \E name \in CacheNames :
           /\ StartsWith(FileStem(name), gen_posts[i].id)
           /\ name \notin DOMAIN dir
           /\ <<i, name>> \notin present_at_write
           /\ \E e \in present_at_write : e[1] > i

\* The parts of a payload a failing write_all may leave, over the posts.
PayloadParts == UNION {PartialWrites(Payload(p.tags)) : p \in PostPool}

\* The path the loop of write_sidecar_files is about to create.
FailPath == SidecarPath(CurrentMatches[entry_j])

\* C13: when File::create or write_all fails for a sidecar,
\* write_sidecar_files returns the I/O error at once and run ends with it:
\* every file other than the one that failed is left as it was (the sidecars
\* written before stay in place), and nothing is written after the error.
C13_FailureAborts ==
    [][/\ CreateFails => (gen_pc' = "done" /\ gen_result' = ErrIo /\ dir' = dir)
       /\ (\E partial \in PayloadParts : WriteAllFails(partial)) =>
              /\ gen_pc' = "done"
              /\ gen_result' = ErrIo
              /\ DOMAIN dir' = DOMAIN dir \cup {FailPath}
              /\ \A n \in DOMAIN dir : n # FailPath => dir'[n] = dir[n]
       /\ gen_result = ErrIo => (dir' = dir /\ written' = written)]_vars

\* C13's case: the run has ended with the I/O error after a sidecar had been
\* written, and an entry matching a later post is left without a sidecar.
C13_Witness ==
    /\ gen_result = ErrIo
    /\ present_at_write # {}
    /\ \A e \in present_at_write :
           /\ SidecarPath(e[2]) \in DOMAIN dir
           /\ dir[SidecarPath(e[2])].content = Payload(gen_posts[e[1]].tags)
    /\ \E i \in DOMAIN gen_posts : \E name \in CacheNames :
           /\ i > post_i
           /\ StartsWith(FileStem(name), gen_posts[i].id)
           /\ name \in DOMAIN dir
           /\ SidecarPath(name) \notin DOMAIN dir

\* C14: until parse_posts has returned, the run writes nothing: the directory
\* stays as it is and no sidecar path has been written; and when the scan of
\* the media directory or the parse fails, run returns the error, still
\* with nothing written.
C14_NothingBeforeParse ==
    [][/\ gen_pc \in {"start", "parse"} =>
              (written = {} /\ written' = {} /\ dir' = dir)
       /\ BuildFileCacheFails => (gen_pc' = "done" /\ gen_result' = ErrMediaDir)
       /\ ParsePostsFails => (gen_pc' = "done" /\ gen_result' = ErrParse)]_vars

\* C14's case: the parse has failed in a run whose inventory holds a file a
\* post of the posts file would have matched.
C14_Witness ==
    /\ gen_result = ErrParse
    /\ written = {}
    /\ \E i \in DOMAIN gen_posts : Matches(file_cache, gen_posts[i].id) # <<>>

\* The Photo posts of the run.
PhotoPosts == {i \in DOMAIN gen_posts : gen_posts[i].media_type = "Photo"}

\* C19 as stated: a Photo post is reported as missing if and only if no
\* inventory entry matched it for sidecar writing.
C19_MatchingAgrees ==
    gen_pc = "reported" =>
        \A i \in PhotoPosts :
            LinesFor(i) # {} <=> Matches(file_cache, gen_posts[i].id) = <<>>

\* C19 as amended: a Photo post that an inventory entry matched for sidecar
\* writing is never reported as missing, and a Photo post whose id holds no
\* '.' is reported if and only if no entry matched it.
C19_MatchingAgreesWithoutDot ==
    gen_pc = "reported" =>
        \A i \in PhotoPosts :
            /\ Matches(file_cache, gen_posts[i].id) # <<>> => LinesFor(i) = {}
            /\ Positions(gen_posts[i].id, ".") = {} =>
                   (LinesFor(i) # {} <=> Matches(file_cache, gen_posts[i].id) = <<>>)

\* C19's case: the report has been made over an inventory that matched one
\* Photo post, left another Photo post without '.' in its id unmatched, or
\* held a file whose name, but not whose stem, starts with a post's id.
C19_Witness ==
    /\ gen_pc = "reported"
    /\ \E i, j \in PhotoPosts :
           /\ Matches(file_cache, gen_posts[i].id) # <<>>
           /\ Matches(file_cache, gen_posts[j].id) = <<>>
           /\ Found(file_cache, gen_posts[j].id)

\* The media files of the directory: what a scan would take into the
\* inventory.
MediaFiles == {n \in DOMAIN dir : CacheFilter(dir, n)}

\* C20: every path written is an inventory entry's path with .txt appended
\* and is no path of the inventory; no step of the run changes, removes or
\* creates a media file (only others remove them); and the report changes
\* no file at all.
C20_MediaUntouched ==
    [][/\ written' \subseteq {SidecarPath(n) : n \in CacheNames'}
       /\ written' \cap CacheNames' = {}
       /\ \A n \in MediaFiles :
              (n \in DOMAIN dir' /\ dir'[n] = dir[n]) \/ n \in deleted'
       /\ \A n \in DOMAIN dir' \ DOMAIN dir : ~CacheFilter(dir', n)
       /\ ReportMissingMedia => dir' = dir]_vars

\* C20's case: a run has written several sidecars, one of them for the file
\* named .txt, and made its report.
C20_Witness ==
    /\ gen_pc = "reported"
    /\ SidecarPath(TxtSuffix) \in written
    /\ Cardinality(written) >= 2

(***************************************************************************)
(* The tag-mapping file: load_tag_mappings of src/lib.rs                   *)
(***************************************************************************)
\* The lines of the files explored.
MaxLines == 2

\* The lines explored: a renaming, the same with blanks around the fields, a
\* dropping, a second renaming of the same source, a line with no source, a
\* line of blanks around the comma, an empty line, a line of one field and a
\* line of three.
MappingLines ==
    {<<"a", ",", "b">>, <<" ", "a", " ", ",", " ", "b", " ">>, <<"c", ",">>,
     <<"a", ",", "c">>, <<",", "b">>, <<" ", ",", " ">>, <<>>, <<"a">>,
     <<"a", ",", "b", ",", "c">>}

MappingFiles ==
    {[name |-> n, lines |-> l] :
        n \in {<<"m">>, <<"n">>},
        l \in UNION {[1..k -> MappingLines] : k \in 0..MaxLines}}

\* tag_mappings.split(",").map(|t| t.trim()).collect()
Parts(line) == LET split == Split(line, ",") IN [k \in DOMAIN split |-> Trim(split[k])]

\* A slip of the format check: only a line of too few fields is refused.
FormatErrorIn_TooFew(parts) == Len(parts) < 2

\* parts.len() != 2
FormatErrorIn(parts) == Len(parts) # 2

\* bail!("format error in tags remapping file {}", mapping_file.display())
FormatError(file) == <<"format error in tags remapping file", file.name>>

\* The error of File::open or of reading a line.
IoError == <<"io">>

\* let dest_tag = if dest_tag.is_empty() { None } else { Some(...) }
DestTag(dest) == IF dest = <<>> THEN {} ELSE {dest}

\* if !source_tag.is_empty() { mappings.insert(source_tag, dest_tag); }
Insert(m, source_tag, dest_tag) ==
    IF source_tag # <<>>
    THEN [k \in DOMAIN m \cup {source_tag} |->
             IF k = source_tag THEN dest_tag ELSE m[k]]
    ELSE m

InitLoad ==
    /\ tag_mappings = RenameDrop
    /\ ParserIdle
    /\ CounterIdle
    /\ GenIdle
    /\ mapping_file \in MappingFiles
    /\ mappings = EmptyMap
    /\ line_i = 1
    /\ load_result = [kind |-> "Running", error |-> <<>>, mappings |-> {}]

\* A return of load_tag_mappings: the result, and the local table dropped.
LoadReturns(kind, error, table) ==
    /\ load_result' = [kind |-> kind, error |-> error, mappings |-> table]
    /\ mappings' = EmptyMap
    /\ UNCHANGED <<mapping_file, line_i>>

\* File::open(&mapping_file)? fails.
OpenFails ==
    /\ load_result.kind = "Running"
    /\ line_i = 1
    /\ LoadReturns("Err", IoError, {})
    /\ UNCHANGED notLoad

\* One turn of the loop over file.lines(), the line read.
LoadLine ==
    /\ load_result.kind = "Running"
    /\ line_i <= Len(mapping_file.lines)
    /\ LET parts == Parts(mapping_file.lines[line_i])
       IN  IF FormatErrorIn(parts)
           THEN LoadReturns("Err", FormatError(mapping_file), {})
           ELSE /\ mappings' = Insert(mappings, parts[1], DestTag(parts[2]))
                /\ line_i' = line_i + 1
                /\ UNCHANGED <<mapping_file, load_result>>
    /\ UNCHANGED notLoad

\* One turn of the loop over file.lines(): Err(e) => return Err(e.into()).
LineReadFails ==
    /\ load_result.kind = "Running"
    /\ line_i <= Len(mapping_file.lines)
    /\ LoadReturns("Err", IoError, {})
    /\ UNCHANGED notLoad

\* The lines are exhausted: Ok(mappings).
LoadReturnsOk ==
    /\ load_result.kind = "Running"
    /\ line_i > Len(mapping_file.lines)
    /\ LoadReturns("Ok", <<>>, {mappings})
    /\ UNCHANGED notLoad

NextLoad ==
    \/ OpenFails
    \/ LoadLine
    \/ LineReadFails
    \/ LoadReturnsOk

SpecLoad == InitLoad /\ [][NextLoad]_vars

(***************************************************************************)
(* Claims about the tag-mapping file                                       *)
(***************************************************************************)
\* The fields of a line, the source and the dest of a line of two fields.
Fields(k) == Parts(mapping_file.lines[k])
Source(k) == Fields(k)[1]
Dest(k) == IF Fields(k)[2] = <<>> THEN {} ELSE {Fields(k)[2]}
Lines == DOMAIN mapping_file.lines
Table == CHOOSE t \in load_result.mappings : TRUE

\* When a line of the file does not have exactly two fields, the load does
\* not succeed: it has failed with the format error naming the file (or with
\* the error of opening or reading the file) and has returned no table.
BadLineFails ==
    /\ load_result.kind = "Ok" =>
           /\ \A k \in Lines : Len(Fields(k)) = 2
           /\ Cardinality(load_result.mappings) = 1
    /\ load_result.kind = "Err" =>
           /\ load_result.mappings = {}
           /\ load_result.error \in {FormatError(mapping_file), IoError}
           /\ load_result.error = FormatError(mapping_file) =>
                  /\ Len(Fields(line_i)) # 2
                  /\ \A k \in 1..(line_i - 1) : Len(Fields(k)) = 2
    /\ (load_result.kind # "Running" /\ \E k \in Lines : Len(Fields(k)) # 2)
           => load_result.kind = "Err"

\* C15 as stated: the table returned maps the source of each line to its
\* dest, after trimming, an empty dest as the dropping of the tag; a line
\* that does not split into exactly two fields fails the load with the format
\* error naming the file, and no table is returned.
C15_EachLineMapped ==
    /\ BadLineFails
    /\ load_result.kind = "Ok" =>
           \A k \in Lines :
               /\ Source(k) \in DOMAIN Table
               /\ Table[Source(k)] = Dest(k)

\* C15 as amended: the table returned maps each source that is not empty to
\* the dest of the last line that has that source, and maps nothing else; a
\* line whose source is empty adds nothing.
C15_LastLineOfSourceMapped ==
    /\ BadLineFails
    /\ load_result.kind = "Ok" =>
           /\ DOMAIN Table = {Source(k) : k \in Lines} \ {<<>>}
           /\ \A k \in Lines :
                  (/\ Source(k) # <<>>
                   /\ \A j \in Lines : j > k => Source(j) # Source(k))
                  => Table[Source(k)] = Dest(k)

\* C15's case: a table has been returned for a file that renames a tag, with
\* blanks around the fields, and drops another.
C15_Witness ==
    /\ load_result.kind = "Ok"
    /\ DOMAIN Table = {<<"a">>, <<"c">>}
    /\ Table[<<"a">>] = {<<"b">>}
    /\ Table[<<"c">>] = {}
    /\ \E k \in Lines : Len(mapping_file.lines[k]) > 3

=============================================================================
